---- MODULE Spec2Model ----
(***************************************************************************)
(* The capsule layer of capsLayer.py: CapsLayer.__call__, routing and      *)
(* squash.  Tensors are functions over 0-based index ranges; a tensor      *)
(* handed to the layer is a record of its static shape and its row-major   *)
(* data.  Real numbers are fixed-point integers with SC units to 1.0,      *)
(* rounded toward zero; a coupling coefficient is kept as the exact        *)
(* quotient <<numerator, denominator>> that the softmax divides.           *)
(***************************************************************************)
EXTENDS Integers, Sequences, FiniteSets

\* ------------------------------------------------------------- bounds
\* Fixed-point resolution: SC units represent 1.0.
SC == 100
\* cfg.batch_size.
BatchSize == 2
\* Spatial side of the PrimaryCaps output (6 in the source).
OutHW == 1
\* Capsule channels of the PrimaryCaps layer (32 in the source).
PrimaryCaps == 3
\* Number of capsules of the DigitCaps layer (10 in the source).
NumCapsOut == 2
\* Length of a lower capsule's vector u_i (8 in the source).
LenU == 2
\* Length of a higher capsule's vector v_j (16 in the source).
LenV == 2
\* Spatial side and channels of the PrimaryCaps input (20 and 256 in the source).
InHW == 2
InChannels == 1
\* Tensor entries are k * SC for k in -MaxVal..MaxVal.
MaxVal == 1
\* cfg.iter_routing ranges over 1..MaxIter.
MaxIter == 3
\* Input tensors and initial weights are drawn by seed from 0..MaxSeed.
MaxSeed == 2
\* Number of calls of one layer object.
MaxPasses == 2

\* 1e-7 under the square root, in units of 1/SC^2, rounded up to the resolution.
EpsSq == 1

\* 6*6*32: the number of lower capsules.
NumCapsIn == OutHW * OutHW * PrimaryCaps

Bs == 0 .. BatchSize - 1
Is == 0 .. NumCapsIn - 1
Js == 0 .. NumCapsOut - 1
Ks == 0 .. LenU - 1
Ds == 0 .. LenV - 1

\* ---------------------------------------------------------- arithmetic
\* Quotient rounded toward zero.
TruncDiv(a, b) == IF a >= 0 THEN a \div b ELSE -((-a) \div b)

\* Fixed-point product and quotient.
Mul(a, b) == TruncDiv(a * b, SC)
Div(a, b) == TruncDiv(a * SC, b)

RECURSIVE SumTo(_, _)
\* f[0] + ... + f[n-1], added left to right.
SumTo(f, n) == IF n = 0 THEN 0 ELSE SumTo(f, n - 1) + f[n - 1]

RECURSIVE ProdSeq(_)
ProdSeq(s) == IF s = <<>> THEN 1 ELSE Head(s) * ProdSeq(Tail(s))

RECURSIVE SqrtSearch(_, _, _)
\* The least r in lo..hi with r * r >= n.
SqrtSearch(n, lo, hi) ==
    IF lo >= hi THEN lo
    ELSE LET mid == (lo + hi) \div 2
         IN  IF mid * mid >= n THEN SqrtSearch(n, lo, mid)
             ELSE SqrtSearch(n, mid + 1, hi)

\* tf.sqrt(x + 1e-7) of a fixed-point x >= 0, rounded up: strictly positive.
SqrtEps(x) == SqrtSearch(x * SC + EpsSq, 0, 46340)

\* 1/e in fixed point.
InvE == (SC * 1000) \div 2718

RECURSIVE PowInvE(_)
PowInvE(k) == IF k = 0 THEN SC ELSE Mul(PowInvE(k - 1), InvE)

\* exp(-y / SC) of a fixed-point y >= 0: e^-k for the whole part, and the
\* series 1 - f + f^2/2 - f^3/6 + f^4/24 for the fraction.
ExpNeg(y) ==
    LET k  == y \div SC
        f  == y % SC
        t2 == (f * f) \div (2 * SC)
        t3 == (t2 * f) \div (3 * SC)
        t4 == (t3 * f) \div (4 * SC)
    IN  IF k > 20 THEN 0
        ELSE Mul(PowInvE(k), SC - f + t2 - t3 + t4)

SetMax(S) == CHOOSE m \in S : \A x \in S : x <= m

\* ------------------------------------------------------------- tensors
\* The tensor t with its entries computed: every operation on tensors yields its
\* whole result before the next one reads it.
Eval(t) == IF t = t THEN t ELSE t

(* A tensor of shape [d0, ..., dn, L] is a function from the index tuples   *)
(* of its leading axes to its vectors along the last axis (0 .. L-1).       *)

\* Row-major offset (0-based) of index tuple idx in a tensor of shape dims.
RECURSIVE Offset(_, _)
Offset(idx, dims) ==
    IF idx = <<>> THEN 0
    ELSE Offset(SubSeq(idx, 1, Len(idx) - 1), SubSeq(dims, 1, Len(dims) - 1))
           * dims[Len(dims)] + idx[Len(idx)]

\* An entry drawn by seed: seed 0 is the all-zero tensor.
Gen(seed, k) ==
    IF seed = 0 THEN 0
    ELSE SC * (((k * k * seed + (k \div 2) * (seed + 1) + (k \div 3) + (k \div 5) * seed
                   + 2 * seed + k) % (2 * MaxVal + 1)) - MaxVal)

\* A tensor handed to the layer: its static shape and its row-major data.
Tensor(shape, seed) ==
    [shape |-> shape, data |-> Eval([k \in 1 .. ProdSeq(shape) |-> Gen(seed, k)])]

\* tf.random_normal_initializer: the weight W[i][j][k][d] drawn by seed.
RandomNormal(seed) ==
    Eval([ij \in Is \X Js |->
        [k \in Ks |->
            [d \in Ds |->
                Gen(seed + 1, 7 + Offset(<<ij[1], ij[2], k, d>>,
                                         <<NumCapsIn, NumCapsOut, LenU, LenV>>))]]])

\* tf.reshape succeeds exactly when the element counts agree.
ReshapeOK(t, shape) == ProdSeq(t.shape) = ProdSeq(shape)

\* tf.reshape(input, (batch_size, 6*6*32, 1, 8, 1)): entry [b, i, 0, k, 0].
ReshapeInput(t) ==
    Eval([bi \in Bs \X Is |->
            [k \in Ks |->
                t.data[Offset(<<bi[1], bi[2], k>>, <<BatchSize, NumCapsIn, LenU>>) + 1]]])

\* ------------------------------------------------------------- squash
\* squash of one vector along the last axis.
SquashVec(vec) ==
    LET n  == Cardinality(DOMAIN vec)
        vec_squared_norm == SumTo([k \in 0 .. n - 1 |-> Mul(vec[k], vec[k])], n)
        scalar_factor ==
            Div(Div(vec_squared_norm, SC + vec_squared_norm), SqrtEps(vec_squared_norm))
    IN  [k \in DOMAIN vec |-> Mul(scalar_factor, vec[k])]

\* squash(vector): the norm is reduced over the last axis of the tensor given.
squash(vector) == Eval([idx \in DOMAIN vector |-> SquashVec(Eval(vector[idx]))])

\* ------------------------------------------------------------ routing
\* Mutant: logits that start from a ramp over the higher capsules.
RampLogits == [bi \in Bs \X Is |-> [j \in Js |-> j * SC]]

\* np.zeros([batch_size, 6*6*32, 10]).
ZeroLogits == [bi \in Bs \X Is |-> [j \in Js |-> 0]]

\* Mutant: the logits exposed by the previous call are taken up again.
InitLogitsKept(prev_b_IJ) == IF prev_b_IJ = [x \in {} |-> 0] THEN ZeroLogits ELSE prev_b_IJ

\* The logits a call of routing starts from: the constant of zeros.
InitLogits(prev_b_IJ) == ZeroLogits

\* Mutant: a transform with a bias term, as a dense layer has.
TransformBiased(Wt, u) ==
    [bij \in Bs \X Is \X Js |->
        [d \in Ds |->
            SumTo([k \in Ks |-> Mul(Wt[<<bij[2], bij[3]>>][k][d], u[<<bij[1], bij[2]>>][k])],
                  LenU) + SC \div 10]]

\* tf.matmul(W, input, transpose_a=True) on the tiled tensors, reshaped:
\* u_hat[b, i, j, d] = sum over k of W[i, j, k, d] * u[b, i, k].
Transform(Wt, u) ==
    Eval([bij \in Bs \X Is \X Js |->
        [d \in Ds |->
            SumTo([k \in Ks |-> Mul(Wt[<<bij[2], bij[3]>>][k][d], u[<<bij[1], bij[2]>>][k])],
                  LenU)]])

\* The exponentials of one vector of logits, shifted by its maximum.
ExpVec(row) ==
    LET m == SetMax({row[j] : j \in DOMAIN row})
    IN  Eval([j \in DOMAIN row |-> ExpNeg(m - row[j])])

\* Mutant: tf.nn.softmax(b_IJ, dim=1), normalised over the lower capsules.
SoftmaxOverIn(b) ==
    [bi \in DOMAIN b |->
        [j \in Js |->
            LET e == ExpVec([i \in Is |-> b[<<bi[1], i>>][j]])
            IN  <<e[bi[2]], SumTo(e, NumCapsIn)>>]]

\* tf.nn.softmax(b_IJ, dim=2): normalised over the last (N_out) axis.
Softmax(b) ==
    Eval([bi \in DOMAIN b |->
            LET e == ExpVec(b[bi])
                den == SumTo(e, NumCapsOut)
            IN  [j \in Js |-> <<e[j], den>>]])

\* tf.multiply(c_IJ, u_hat) then tf.reduce_sum(axis=1):
\* s[b, j, d] = sum over i of c[b, i, j] * u_hat[b, i, j, d].
WeightedSum(c, uh) ==
    Eval([bj \in Bs \X Js |->
        [d \in Ds |->
            SumTo([i \in Is |->
                     TruncDiv(c[<<bj[1], i>>][bj[2]][1] * uh[<<bj[1], i, bj[2]>>][d],
                              c[<<bj[1], i>>][bj[2]][2])],
                  NumCapsIn)]])

\* tf.reduce_sum(u_hat * expand_dims(v_J, 1), axis=-1):
\* u_produce_v[b, i, j] = dot product of u_hat[b, i, j] and v[b, j].
Agreement(uh, v) ==
    Eval([bi \in Bs \X Is |->
            [j \in Js |->
                SumTo([d \in Ds |-> Mul(uh[<<bi[1], bi[2], j>>][d], v[<<bi[1], j>>][d])],
                      LenV)]])

\* Mutant: b_IJ = u_produce_v, the logits replaced.
ReplaceLogits(b, u_produce_v) ==
    [bi \in DOMAIN b |-> [j \in Js |-> u_produce_v[bi][j]]]

\* b_IJ += u_produce_v.
UpdateLogits(b, u_produce_v) ==
    Eval([bi \in DOMAIN b |-> [j \in Js |-> b[bi][j] + u_produce_v[bi][j]]])

\* Mutant: the loop also stops once an iteration found no agreement to add.
LoopUntilConverged(r, R, u_produce_v) ==
    r < R /\ (r = 0 \/ \E bi \in DOMAIN u_produce_v : \E j \in Js : u_produce_v[bi][j] # 0)

\* for r_iter in range(cfg.iter_routing): whether the body runs once more.
LoopContinues(r, R, u_produce_v) == r < R

\* ------------------------------------------------------------- conv2d
\* Side of a VALID convolution's output.
ConvOutSide(kernel_size, stride) == (InHW - kernel_size) \div stride + 1

\* The static shape of the convolution's output.
ConvShape(channels, kernel_size, stride) ==
    <<BatchSize, ConvOutSide(kernel_size, stride), ConvOutSide(kernel_size, stride), channels>>

\* tf.contrib.layers.conv2d(input, channels, kernel_size, stride, padding="VALID"):
\* the kernel is drawn by seed; the default activation is ReLU.
conv2d(t, channels, kernel_size, stride, seed) ==
    LET side == ConvOutSide(kernel_size, stride)
        n    == kernel_size * kernel_size * InChannels
        \* the window entry w = (dy * kernel_size + dx) * InChannels + ci
        dy(w) == w \div (kernel_size * InChannels)
        dx(w) == (w \div InChannels) % kernel_size
        ci(w) == w % InChannels
        kern(w, co) == Gen(seed, 3 + w * channels + co)
        inp(b, y, x, c) ==
            t.data[Offset(<<b, y, x, c>>, <<BatchSize, InHW, InHW, InChannels>>) + 1]
        relu(x) == IF x < 0 THEN 0 ELSE x
    IN  Eval([pos \in Bs \X (0 .. side - 1) \X (0 .. side - 1) |->
                [co \in 0 .. channels - 1 |->
                    relu(SumTo([w \in 0 .. n - 1 |->
                                  Mul(kern(w, co),
                                      inp(pos[1], pos[2] * stride + dy(w),
                                          pos[3] * stride + dx(w), ci(w)))],
                               n))]])

\* -------------------------------------------------------------- state
VARIABLES
    layer,        \* the constructor's arguments: num_outputs, vec_len, with_routing, layer_type
    iter_routing, \* cfg.iter_routing, which only routing reads
    conv_kernel,  \* the kernel variable of the convolution: created by the first call
    self,         \* attributes a call sets on the layer, and the set of those set so far
    Weight,       \* the variable 'Weight' of routing
    input,        \* the tensor of the call in progress or last made
    u_hat,        \* routing's vote tensor
    b_IJ,         \* routing's logits
    c_IJ,         \* routing's coupling coefficients
    s_J,          \* routing's weighted sums
    v_J,          \* routing's capsule outputs
    u_produce_v,  \* routing's agreement tensor
    r_iter,       \* iterations of the loop completed
    pc,           \* "idle" after construction, "loop" inside routing, "done" after a call
    result,       \* what the last call returned or raised
    passes,       \* calls made so far
    trace,        \* history: one record per routing iteration of the call
    n_transform   \* history: evaluations of u_hat in the call

vars == <<layer, iter_routing, conv_kernel, self, Weight, input, u_hat, b_IJ, c_IJ, s_J, v_J,
          u_produce_v, r_iter, pc, result, passes, trace, n_transform>>

\* A value not yet assigned.
Null == [x \in {} |-> 0]

\* The static shapes the source names.
PrimaryInShape == <<BatchSize, InHW, InHW, InChannels>>
PrimaryOutShape == <<BatchSize, OutHW, OutHW, LenU * PrimaryCaps>>
RoutingInShape == <<BatchSize, NumCapsIn, 1, LenU, 1>>
DigitOutShape == <<BatchSize, NumCapsOut, LenV>>

\* Shapes of tensors handed to the PrimaryCaps layer: the expected one, one
\* with a channel too many, one with a wrong side.
ConvInputShapes ==
    {PrimaryInShape,
     <<BatchSize, InHW, InHW, InChannels + 1>>,
     <<BatchSize, InHW + 1, InHW, InChannels>>}

\* Shapes of tensors handed to the DigitCaps layer: the capsule layout, the
\* PrimaryCaps output, the two axes exchanged, capsules of length 1, a
\* capsule too many, a component too many.
FCInputShapes ==
    {<<BatchSize, NumCapsIn, LenU>>,
     PrimaryOutShape,
     <<BatchSize, LenU, NumCapsIn>>,
     <<BatchSize, NumCapsIn * LenU, 1>>,
     <<BatchSize, NumCapsIn + 1, LenU>>,
     <<BatchSize, NumCapsIn, LenU + 1>>}

Seeds == 0 .. MaxSeed
KernelSizes == 1 .. InHW
Strides == 1 .. 2

Returned(shape, value) == [kind |-> "tensor", shape |-> shape, value |-> value]
ReturnedNone == [kind |-> "None", shape |-> <<>>, value |-> Null]
Raised(what) == [kind |-> what, shape |-> <<>>, value |-> Null]
Pending == [kind |-> "pending", shape |-> <<>>, value |-> Null]

\* The layers constructed: the PrimaryCaps layer (num_outputs 32, vec_len 8,
\* 'CONV'), a 'CONV' layer of another capsule count, the DigitCaps layer
\* (num_outputs 10, vec_len 16, 'FC'), each with and without routing.
Layers ==
    {l \in [num_outputs : {PrimaryCaps, NumCapsOut}, vec_len : {LenU, LenV},
            with_routing : BOOLEAN, layer_type : {"CONV", "FC"}] :
        /\ l.layer_type = "FC" => l.num_outputs = NumCapsOut /\ l.vec_len = LenV
        /\ l.layer_type = "CONV" => l.vec_len = LenU}

\* The tensors handed to a layer: every seed in the first shape listed, the
\* seed 1 in the others.
Inputs(first, others) ==
    {Tensor(first, seed) : seed \in Seeds} \cup {Tensor(sh, 1) : sh \in others}

ConvInputs == Inputs(PrimaryInShape, ConvInputShapes)
FCInputs == Inputs(<<BatchSize, NumCapsIn, LenU>>, FCInputShapes)

\* CapsLayer.__init__, and the state before any call.
Init ==
    /\ layer \in Layers
    /\ iter_routing \in (IF layer.layer_type = "FC" /\ layer.with_routing
                           THEN 1 .. MaxIter ELSE {MaxIter})
    /\ conv_kernel = [created |-> FALSE, seed |-> 0]
    /\ self = [set |-> {}, kernel_size |-> 0, stride |-> 0, input |-> Null, b_IJ |-> Null]
    /\ Weight = [created |-> FALSE, value |-> Null]
    /\ input = Null
    /\ u_hat = Null /\ b_IJ = Null /\ c_IJ = Null /\ s_J = Null /\ v_J = Null
    /\ u_produce_v = Null
    /\ r_iter = 0
    /\ pc = "idle"
    /\ result = Pending
    /\ passes = 0
    /\ trace = <<>>
    /\ n_transform = 0

CanCall == pc \in {"idle", "done"} /\ passes < MaxPasses

\* What every call that does not enter routing leaves of the previous one.
NoRouting ==
    /\ u_hat' = Null /\ b_IJ' = Null /\ c_IJ' = Null /\ s_J' = Null /\ v_J' = Null
    /\ u_produce_v' = Null
    /\ r_iter' = 0
    /\ trace' = <<>>
    /\ n_transform' = 0
    /\ UNCHANGED <<layer, iter_routing, Weight>>

\* __call__ with layer_type 'CONV' and with_routing False: the PrimaryCaps layer.
CallConvPrimary ==
    /\ CanCall
    /\ layer.layer_type = "CONV" /\ ~layer.with_routing
    /\ \E t \in ConvInputs, kernel_size \in KernelSizes, stride \in Strides,
          kseed \in (IF conv_kernel.created THEN {conv_kernel.seed} ELSE Seeds) :
         LET channels == layer.num_outputs * layer.vec_len
             capsules == conv2d(t, channels, kernel_size, stride, kseed)
         IN  /\ input' = t
             /\ conv_kernel' = IF t.shape = PrimaryInShape
                                THEN [created |-> TRUE, seed |-> kseed]
                                ELSE conv_kernel
             /\ self' = [self EXCEPT !.kernel_size = kernel_size, !.stride = stride,
                                     !.set = @ \cup {"kernel_size", "stride"}]
             /\ result' = IF t.shape # PrimaryInShape THEN Raised("AssertionError")
                          ELSE IF ConvShape(channels, kernel_size, stride) # PrimaryOutShape
                                 THEN Raised("AssertionError")
                          ELSE Returned(PrimaryOutShape, squash(capsules))
    /\ pc' = "done"
    /\ passes' = passes + 1
    /\ NoRouting

\* A call with layer_type 'CONV' and with_routing True that ends with res.
ConvRoutedCall(res) ==
    /\ CanCall
    /\ layer.layer_type = "CONV" /\ layer.with_routing
    /\ \E t \in ConvInputs, kernel_size \in KernelSizes, stride \in Strides :
         /\ input' = t
         /\ self' = [self EXCEPT !.kernel_size = kernel_size, !.stride = stride,
                                 !.set = @ \cup {"kernel_size", "stride"}]
    /\ result' = res
    /\ UNCHANGED conv_kernel
    /\ pc' = "done"
    /\ passes' = passes + 1
    /\ NoRouting

\* Mutant: return(capsules) at the level of the function body.
CallConvRoutedUnbound == ConvRoutedCall(Raised("UnboundLocalError"))

\* __call__ with layer_type 'CONV' and with_routing True: neither branch
\* returns, and the call falls off the end with None.
CallConvRouted == ConvRoutedCall(ReturnedNone)

\* __call__ with layer_type 'FC' and with_routing False: capsules is never assigned.
CallFCUnrouted ==
    /\ CanCall
    /\ layer.layer_type = "FC" /\ ~layer.with_routing
    /\ \E t \in FCInputs : input' = t
    /\ result' = Raised("UnboundLocalError")
    /\ pc' = "done"
    /\ passes' = passes + 1
    /\ UNCHANGED <<self, conv_kernel>>
    /\ NoRouting

\* __call__ with layer_type 'FC' and with_routing True, up to routing's loop:
\* the reshape, the variable W, u_hat and the zero logits.
CallFCRouted ==
    /\ CanCall
    /\ layer.layer_type = "FC" /\ layer.with_routing
    /\ passes' = passes + 1
    /\ \E t \in FCInputs, wseed \in (IF Weight.created THEN {0} ELSE Seeds) :
         LET W == IF Weight.created THEN Weight.value ELSE RandomNormal(wseed)
         IN  /\ input' = t
             /\ IF ReshapeOK(t, RoutingInShape)
                  THEN /\ self' = [self EXCEPT !.input = ReshapeInput(t),
                                               !.set = @ \cup {"input"}]
                       /\ Weight' = [created |-> TRUE, value |-> W]
                       /\ u_hat' = Transform(W, ReshapeInput(t))
                       /\ n_transform' = 1
                       /\ b_IJ' = InitLogits(self.b_IJ)
                       /\ pc' = "loop"
                       /\ result' = Pending
                  ELSE /\ UNCHANGED <<self, Weight>>
                       /\ u_hat' = Null
                       /\ n_transform' = 0
                       /\ b_IJ' = Null
                       /\ pc' = "done"
                       /\ result' = Raised("ValueError")
    /\ c_IJ' = Null /\ s_J' = Null /\ v_J' = Null /\ u_produce_v' = Null
    /\ r_iter' = 0
    /\ trace' = <<>>
    /\ UNCHANGED <<layer, iter_routing, conv_kernel>>

\* One pass through the body of routing's loop, leaving u_hat as uh.
IterBody(uh, n) ==
    /\ pc = "loop"
    /\ LoopContinues(r_iter, iter_routing, u_produce_v)
    /\ LET c == Softmax(b_IJ)
           s == WeightedSum(c, u_hat)
           v == squash(s)
           a == Agreement(u_hat, v)
           b == UpdateLogits(b_IJ, a)
       IN  /\ c_IJ' = c
           /\ s_J' = s
           /\ v_J' = v
           /\ u_produce_v' = a
           /\ b_IJ' = b
           /\ trace' = Append(trace, [b_in |-> b_IJ, c |-> c, s |-> s, v |-> v,
                                      u_produce_v |-> a, b_out |-> b])
    /\ u_hat' = uh
    /\ n_transform' = n
    /\ r_iter' = r_iter + 1
    /\ UNCHANGED <<layer, iter_routing, conv_kernel, self, Weight, input, pc, result, passes>>

\* Mutant: u_hat evaluated again inside the loop.
RoutingIterRetransform == IterBody(Transform(Weight.value, self.input), n_transform + 1)

\* The body of routing's loop: c_IJ, s_J, v_J and b_IJ are written, u_hat is not.
RoutingIter == IterBody(u_hat, n_transform)

\* The end of routing's loop, and of the call: return(v_J, b_IJ), the shape
\* assertion, self.b_IJ = b_IJ, return(capsules).
RoutingReturn ==
    /\ pc = "loop"
    /\ ~LoopContinues(r_iter, iter_routing, u_produce_v)
    /\ self' = [self EXCEPT !.b_IJ = b_IJ, !.set = @ \cup {"b_IJ"}]
    /\ result' = IF DigitOutShape = <<BatchSize, NumCapsOut, LenV>>
                   THEN Returned(DigitOutShape, v_J)
                   ELSE Raised("AssertionError")
    /\ pc' = "done"
    /\ UNCHANGED <<layer, iter_routing, conv_kernel, Weight, input, u_hat, b_IJ, c_IJ, s_J,
                   v_J, u_produce_v, r_iter, passes, trace, n_transform>>

Next ==
    \/ CallConvPrimary
    \/ CallConvRouted
    \/ CallFCUnrouted
    \/ CallFCRouted
    \/ RoutingIter
    \/ RoutingReturn

Spec == Init /\ [][Next]_vars

\* ------------------------------------------------------------- claims
Routed == layer.layer_type = "FC" /\ layer.with_routing
Primary == layer.layer_type = "CONV" /\ ~layer.with_routing
RoutedDone == Routed /\ pc = "done" /\ result.kind = "tensor"

\* An all-zero tensor of vectors.
AllZero(t) == \A idx \in DOMAIN t : \A k \in DOMAIN t[idx] : t[idx][k] = 0

RECURSIVE SumAgreements(_)
\* The element-wise sum of the agreement tensors of the iterations of tr, in order.
SumAgreements(tr) ==
    IF tr = <<>> THEN ZeroLogits
    ELSE LET before == SumAgreements(SubSeq(tr, 1, Len(tr) - 1))
             a == tr[Len(tr)].u_produce_v
         IN  Eval([bi \in Bs \X Is |-> [j \in Js |-> before[bi][j] + a[bi][j]]])

\* The coefficients c[b, i, .] of one lower capsule add up to exactly 1.
RowSumIsOne(row) ==
    LET dens == [j \in Js |-> row[j][2]]
        prodExcept(j) == ProdSeq([k \in 1 .. NumCapsOut |-> IF k - 1 = j THEN 1 ELSE dens[k - 1]])
    IN  /\ \A j \in Js : dens[j] > 0 /\ row[j][1] >= 0
        /\ SumTo([j \in Js |-> row[j][1] * prodExcept(j)], NumCapsOut)
             = ProdSeq([k \in 1 .. NumCapsOut |-> dens[k - 1]])

\* The final state of a routed call of R iterations, read off its history.
EndsAfterR ==
    /\ pc = "done"
    /\ r_iter = iter_routing
    /\ Len(trace) = iter_routing
    /\ result = Returned(DigitOutShape, trace[iter_routing].v)
    /\ self.b_IJ = trace[iter_routing].b_out

\* The iterations so far ran one after another, each from the logits the one before wrote.
Sequential ==
    /\ Len(trace) = r_iter
    /\ r_iter <= iter_routing
    /\ \A k \in 1 .. Len(trace) :
         /\ trace[k].b_in = (IF k = 1 THEN ZeroLogits ELSE trace[k - 1].b_out)
         /\ trace[k].c = Softmax(trace[k].b_in)
    /\ b_IJ = (IF trace = <<>> THEN ZeroLogits ELSE trace[Len(trace)].b_out)

\* C1: a call of routing performs exactly cfg.iter_routing iterations, one after
\* another, each starting from the logits the previous one wrote, whatever the
\* input, and then ends by returning (v_J, b_IJ): inside the loop the body
\* runs again (and the return does not) exactly while fewer than R iterations
\* have run, and a routed call that has ended ran R iterations.
C1_ExactlyRIterations ==
    /\ pc = "loop" =>
         /\ Sequential
         /\ LoopContinues(r_iter, iter_routing, u_produce_v) <=> r_iter < iter_routing
    /\ RoutedDone => EndsAfterR

C1_Witness ==
    /\ RoutedDone /\ iter_routing = MaxIter /\ Len(trace) = MaxIter
    /\ AllZero(trace[MaxIter].u_produce_v)

\* C2: at the start of every call of routing the logits are all zero, whatever
\* logits an earlier call left exposed in the attribute b_IJ of the layer.
C2_FreshLogits ==
    /\ (pc = "loop" /\ r_iter = 0 => b_IJ = ZeroLogits)
    /\ (pc \in {"loop", "done"} /\ Len(trace) >= 1 => trace[1].b_in = ZeroLogits)

C2_Witness ==
    /\ pc = "loop" /\ r_iter = 0 /\ passes = 2
    /\ "b_IJ" \in self.set /\ ~AllZero(self.b_IJ)

\* C3: in every iteration the coupling coefficients are the softmax of the
\* current logits over the higher capsules: for every batch element and every
\* lower capsule they add up to 1 over j.
C3_CouplingSumsToOne ==
    \A k \in 1 .. Len(trace) :
        /\ trace[k].c = Softmax(trace[k].b_in)
        /\ \A bi \in Bs \X Is : RowSumIsOne(trace[k].c[bi])

C3_Witness ==
    /\ pc = "loop" /\ Len(trace) >= 2
    /\ \E bi \in Bs \X Is : c_IJ[bi][0][1] # c_IJ[bi][1][1]

\* The weighted sum with every coefficient 1/N_out.
UniformSum(uh) ==
    Eval([bj \in Bs \X Js |->
            [d \in Ds |->
                SumTo([i \in Is |-> TruncDiv(uh[<<bj[1], i, bj[2]>>][d], NumCapsOut)],
                      NumCapsIn)]])

\* C4: in the first iteration of a call every coupling coefficient is exactly
\* 1/N_out, and with cfg.iter_routing = 1 the output is the squash of the
\* uniformly weighted sum of the votes.
C4_FirstIterationUniform ==
    /\ Len(trace) >= 1 =>
         /\ \A bi \in Bs \X Is : \A j \in Js :
              trace[1].c[bi][j][1] * NumCapsOut = trace[1].c[bi][j][2]
         /\ trace[1].v = squash(UniformSum(u_hat))
    /\ RoutedDone /\ iter_routing = 1 => result.value = squash(UniformSum(u_hat))

C4_Witness ==
    /\ RoutedDone /\ iter_routing = 1
    /\ ~AllZero(result.value)

\* The layout a tensor handed to the layer must have: the PrimaryCaps input
\* for 'CONV'; for 'FC' 6*6*32 capsules of 8 components, as a capsule tensor,
\* as the PrimaryCaps output or as routing's input.
ExpectedLayout(shape) ==
    IF layer.layer_type = "CONV" THEN shape = PrimaryInShape
    ELSE shape \in {<<BatchSize, NumCapsIn, LenU>>, PrimaryOutShape, RoutingInShape}

\* C5: a tensor with the wrong capsule count or the wrong pose length is
\* rejected at the call: none is reshaped into the expected layout and carried
\* to an output, not even one with the expected number of elements.
C5_WrongShapeRejected ==
    pc = "done" /\ result.kind = "tensor" => ExpectedLayout(input.shape)

\* The convolution's output of the call just made.
ConvOfCall ==
    conv2d(input, layer.num_outputs * layer.vec_len, self.kernel_size, self.stride,
           conv_kernel.seed)

\* The vec_len components of capsule n at position pos of tensor t.
CapsuleOf(t, pos, n) == [k \in 0 .. layer.vec_len - 1 |-> t[pos][n * layer.vec_len + k]]

\* C6: the PrimaryCaps layer squashes each capsule of vec_len components on
\* its own: the factor applied to a capsule depends on its components only.
C6_SquashPerCapsule ==
    Primary /\ pc = "done" /\ result.kind = "tensor" =>
        \A pos \in DOMAIN result.value : \A n \in 0 .. layer.num_outputs - 1 :
            CapsuleOf(result.value, pos, n) = SquashVec(CapsuleOf(ConvOfCall, pos, n))

\* C7: an all-zero input makes every output capsule exactly zero, for every
\* weight and iteration count, and the logits stay zero through every iteration.
C7_ZeroInZeroOut ==
    Routed /\ (pc = "loop" \/ RoutedDone) /\ AllZero(self.input) =>
        /\ b_IJ = ZeroLogits
        /\ \A k \in 1 .. Len(trace) : AllZero(trace[k].v) /\ trace[k].b_out = ZeroLogits
        /\ RoutedDone => AllZero(result.value) /\ self.b_IJ = ZeroLogits

C7_Witness ==
    /\ RoutedDone /\ iter_routing = MaxIter /\ AllZero(self.input)
    /\ \E ij \in DOMAIN Weight.value : ~AllZero(Weight.value[ij])

C9_VotesComputedOnce ==
    [][/\ pc' = "loop" =>
            /\ n_transform' = 1
            /\ u_hat' = Transform(Weight'.value, self'.input)
       /\ pc = "loop" /\ pc' = "loop" =>
            /\ u_hat' = u_hat /\ Weight' = Weight /\ n_transform' = n_transform
            /\ input' = input /\ self' = self]_vars

C9_Witness ==
    /\ pc = "loop" /\ r_iter >= 2 /\ n_transform = 1
    /\ ~AllZero(u_hat) /\ ~AllZero(v_J)

====
